---- MODULE Spec2Model ----
(***************************************************************************)
(* Model of turing_simulator.py: Tape, TransitionFunction and the          *)
(* TuringMachine execution engine (load_input / step / run).               *)
(***************************************************************************)
EXTENDS Integers, Sequences, FiniteSets, TLC

(***************************************************************************)
(* Bounds of the model.                                                    *)
(***************************************************************************)
\* longest input string handed to load_input / run
MaxLen == 2
\* largest max_steps handed to run (the smallest is -1)
MaxBudget == 2
\* most step() calls issued directly by the caller after one load_input
MaxCalls == 3
\* most calls made directly on one Tape
MaxOps == 4
\* most calls made directly on one TransitionFunction
MaxAdds == 3

(***************************************************************************)
(* Values.                                                                 *)
(***************************************************************************)
\* default blank symbol of Tape.__init__ / TuringMachine.__init__
blank_symbol == "_"

\* the two members of the Direction enum
LEFT == "LEFT"
RIGHT == "RIGHT"

\* Python's None, as returned by dict.get on a missing key
None == <<>>

\* the characters an input string is made of
InputSymbols == {"0", "1"}

\* the input strings handed to load_input / run
Inputs == UNION {[1..n -> InputSymbols] : n \in 0..MaxLen}

\* the step budgets handed to run
Budgets == -1..MaxBudget

\* a dict with no entry
EmptyDict == [k \in {} |-> None]

Min2(a, b) == IF a < b THEN a ELSE b
Max2(a, b) == IF a > b THEN a ELSE b
MinOf(S) == CHOOSE x \in S : \A y \in S : x <= y
MaxOf(S) == CHOOSE x \in S : \A y \in S : x >= y

(***************************************************************************)
(* Tape                                                                    *)
(***************************************************************************)
\* Tape.__init__ with the cells numbered from 1
Tape_init_from_one(input_string) ==
    [i \in 1..Len(input_string) |-> input_string[i]]

\* Tape.__init__: the cells dict filled from the input string
Tape_init(input_string) ==
    [i \in 0..(Len(input_string) - 1) |-> input_string[i + 1]]

\* Tape.read indexing the dict, which fails on a missing key
read_key_error(cells, head) ==
    IF head \in DOMAIN cells THEN cells[head] ELSE "KeyError"

\* Tape.read: dict.get(head_position, blank_symbol)
read(cells, head) ==
    IF head \in DOMAIN cells THEN cells[head] ELSE blank_symbol

\* Tape.write replacing the dict by one that holds the written cell only
write_only_cell(cells, head, symbol) ==
    [p \in {head} |-> symbol]

\* Tape.write: cells[head_position] = symbol
write(cells, head, symbol) ==
    [p \in DOMAIN cells \cup {head} |-> IF p = head THEN symbol ELSE cells[p]]

\* Tape.move with the LEFT branch moving the wrong way
move_right_only(head, direction) ==
    IF direction = LEFT THEN head + 1
    ELSE IF direction = RIGHT THEN head + 1
    ELSE head

\* Tape.move
move(head, direction) ==
    IF direction = LEFT THEN head - 1
    ELSE IF direction = RIGHT THEN head + 1
    ELSE head

\* get_content over the window around the head alone
get_content_window_only(cells, head, window) ==
    IF DOMAIN cells = {} THEN <<blank_symbol>>
    ELSE LET min_pos == head - (window \div 2)
             max_pos == head + (window \div 2)
         IN  [i \in 1..(max_pos - min_pos + 1) |->
                 IF (min_pos + i - 1) \in DOMAIN cells
                 THEN cells[min_pos + i - 1] ELSE blank_symbol]

\* Tape.get_content
get_content(cells, head, window) ==
    IF DOMAIN cells = {} THEN <<blank_symbol>>
    ELSE LET min_pos == Min2(MinOf(DOMAIN cells), head - (window \div 2))
             max_pos == Max2(MaxOf(DOMAIN cells), head + (window \div 2))
         IN  [i \in 1..(max_pos - min_pos + 1) |->
                 IF (min_pos + i - 1) \in DOMAIN cells
                 THEN cells[min_pos + i - 1] ELSE blank_symbol]

\* default window of Tape.get_content
DefaultWindow == 20

(***************************************************************************)
(* TransitionFunction                                                      *)
(***************************************************************************)
\* add_transition that keeps the triple a key already has (dict.setdefault)
add_transition_keep_first(trans, current, read_symbol, next, write_symbol, direction) ==
    LET dir_enum == IF direction = "L" THEN LEFT ELSE RIGHT
        key == <<current, read_symbol>>
    IN  [k \in DOMAIN trans \cup {key} |->
            IF k \in DOMAIN trans THEN trans[k]
            ELSE <<next, write_symbol, dir_enum>>]

\* TransitionFunction.add_transition
add_transition(trans, current, read_symbol, next, write_symbol, direction) ==
    LET dir_enum == IF direction = "L" THEN LEFT ELSE RIGHT
        key == <<current, read_symbol>>
    IN  [k \in DOMAIN trans \cup {key} |->
            IF k = key THEN <<next, write_symbol, dir_enum>> ELSE trans[k]]

\* TransitionFunction.get_transition: dict.get(key), None when absent
get_transition(trans, current, read_symbol) ==
    IF <<current, read_symbol>> \in DOMAIN trans
    THEN trans[<<current, read_symbol>>] ELSE None

\* TransitionFunction.load_from_dict: add_transition for each record in order
RECURSIVE load_from_dict(_, _)
load_from_dict(trans, records) ==
    IF records = <<>> THEN trans
    ELSE LET t == Head(records)
         IN  load_from_dict(
                 add_transition(trans, t.current_state, t.read_symbol,
                               t.next_state, t.write_symbol, t.direction),
                 Tail(records))

\* one record of a description's "transitions" list
Rec(cs, rs, ns, ws, d) ==
    [current_state |-> cs, read_symbol |-> rs, next_state |-> ns,
     write_symbol |-> ws, direction |-> d]

(***************************************************************************)
(* Machine descriptions the engine is constructed from.                    *)
(***************************************************************************)
States == {"q0", "q1", "q_accept", "q_reject"}

\* the single-symbol acceptor of the unit tests
TableSingle == << Rec("q0", "0", "q_accept", "0", "R") >>

\* never halts on its own: sweeps right for ever
TableLoop ==
    << Rec("q0", "0", "q0", "1", "R"),
       Rec("q0", "1", "q0", "0", "R"),
       Rec("q0", "_", "q0", "_", "R") >>

\* moves left of position 0; has a transition out of q_accept
TableLeft ==
    << Rec("q0", "0", "q1", "1", "L"),
       Rec("q1", "_", "q_accept", "1", "R"),
       Rec("q_accept", "1", "q0", "0", "R"),
       Rec("q0", "1", "q0", "1", "L") >>

\* a key given twice, a direction that is neither "L" nor "R", and a
\* transition out of q_reject
TableDup ==
    << Rec("q0", "0", "q_reject", "0", "R"),
       Rec("q0", "0", "q1", "1", "X"),
       Rec("q1", "1", "q_reject", "0", "L"),
       Rec("q_reject", "1", "q0", "0", "R"),
       Rec("q1", "0", "q1", "_", "L") >>

Tables == {TableSingle, TableLoop, TableLeft, TableDup}

AcceptChoices == { {"q_accept"}, {"q_accept", "q_reject"}, {"q0"} }
RejectChoices == { {"q_reject"}, {}, {"q_reject", "q1"} }

\* the orders in which list(s) can enumerate the set s
Orders(s) ==
    {o \in [1..Cardinality(s) -> s] : \A x \in s : \E i \in DOMAIN o : o[i] = x}

(***************************************************************************)
(* State                                                                   *)
(***************************************************************************)
VARIABLES
    states,          \* TuringMachine.states
    transitions,     \* TransitionFunction.transitions
    initial_state,   \* TuringMachine.initial_state
    accept_states,   \* TuringMachine.accept_states
    reject_states,   \* TuringMachine.reject_states
    reject_list,     \* the order in which list(self.reject_states) enumerates
    current_state,   \* TuringMachine.current_state
    has_tape,        \* TuringMachine.tape is not None
    tape,            \* Tape.tape (the cells dict)
    head_position,   \* Tape.head_position
    step_count,      \* TuringMachine.step_count
    history,         \* TuringMachine.history
    pc,              \* where the caller is: "idle", or inside run
    input_string,    \* argument of the last load_input / run
    max_steps,       \* argument of the run in progress (or of the last run)
    ret,             \* what the last call returned or raised
    calls,           \* step() calls since the last load_input
    true_calls,      \* step() calls since the last load_input that returned True
    reloaded,        \* the last load_input replaced a tape that had been stepped on
    twins,           \* list(reject_states) in other machines of the same description
    log              \* the calls made directly on a Tape / TransitionFunction

desc == <<states, transitions, initial_state, accept_states, reject_states,
          reject_list, twins>>
exec == <<current_state, has_tape, tape, head_position, step_count, history>>
vars == <<states, transitions, initial_state, accept_states, reject_states,
          reject_list, current_state, has_tape, tape, head_position,
          step_count, history, pc, input_string, max_steps, ret, calls,
          true_calls, reloaded, twins, log>>

\* the outcome labels of run
ACEPTADA == "ACEPTADA"
RECHAZADA == "RECHAZADA"
BUCLE == "BUCLE DETECTADO"

Ret(op, value, label) == [op |-> op, value |-> value, label |-> label]

\* the description from_json hands to TuringMachine.__init__
Described ==
    /\ \E table \in Tables :
           transitions = load_from_dict(EmptyDict, table)
    /\ initial_state = "q0"
    /\ accept_states \in AcceptChoices
    /\ reject_states \in RejectChoices
    /\ reject_list \in Orders(reject_states)

\* the execution fields TuringMachine.__init__ sets; nothing called yet
NothingRun ==
    /\ current_state = initial_state
    /\ has_tape = FALSE
    /\ tape = EmptyDict
    /\ head_position = 0
    /\ step_count = 0
    /\ history = <<>>
    /\ pc = "idle"
    /\ input_string = <<>>
    /\ max_steps = 0
    /\ ret = Ret("init", "none", "none")
    /\ calls = 0
    /\ true_calls = 0
    /\ reloaded = FALSE
    /\ log = <<>>

\* TuringMachine.__init__ on a description whose states are all declared
Init ==
    /\ Described
    /\ states = States
    /\ twins = {}
    /\ NothingRun

\* the states lists of descriptions that leave one state undeclared
StatesChoices == {States \ {q} : q \in {"q0", "q_accept", "q_reject"}}

\* initial_state, or a member of accept_states or reject_states, is undeclared
Malformed ==
    \/ initial_state \notin states
    \/ ~(accept_states \subseteq states)
    \/ ~(reject_states \subseteq states)

\* TuringMachine.__init__ on a description that refers to an undeclared state
MalformedInit ==
    /\ Described
    /\ states \in StatesChoices
    /\ Malformed
    /\ twins = {}
    /\ NothingRun

\* TuringMachine.__init__, with a second machine built from the same
\* description: its list(reject_states) enumerates in an order of its own
TwinInit ==
    /\ Described
    /\ states = States
    /\ twins \in {{o} : o \in Orders(reject_states)}
    /\ NothingRun

(***************************************************************************)
(* TuringMachine: the operations, on the execution state m                 *)
(***************************************************************************)
\* the execution state as one record
Machine ==
    [current_state |-> current_state, has_tape |-> has_tape, tape |-> tape,
     head_position |-> head_position, step_count |-> step_count,
     history |-> history]

\* the configuration string _record_configuration formats, by its fields
Snapshot(m) ==
    [paso |-> m.step_count, estado |-> m.current_state,
     posicion |-> m.head_position,
     cinta |-> get_content(m.tape, m.head_position, DefaultWindow)]

\* _record_configuration assigning a list of the new snapshot alone
record_configuration_alone(m) ==
    IF m.has_tape THEN [m EXCEPT !.history = <<Snapshot(m)>>] ELSE m

\* TuringMachine._record_configuration
record_configuration(m) ==
    IF m.has_tape THEN [m EXCEPT !.history = Append(@, Snapshot(m))] ELSE m

\* load_input without the reset of step_count
load_input_keeps_count(m, w) ==
    record_configuration(
        [current_state |-> initial_state, has_tape |-> TRUE,
         tape |-> Tape_init(w), head_position |-> 0,
         step_count |-> m.step_count, history |-> <<>>])

\* TuringMachine.load_input
load_input(m, w) ==
    record_configuration(
        [current_state |-> initial_state, has_tape |-> TRUE,
         tape |-> Tape_init(w), head_position |-> 0, step_count |-> 0,
         history |-> <<>>])

\* the halting test with the reject_states test left out
IsHaltingAcceptOnly(q) == q \in accept_states

\* the halting test at the top of step
IsHalting(q) == q \in accept_states \/ q \in reject_states

\* the undefined-transition branch returning False without changing state
ImplicitRejectKeepsState(m) ==
    IF reject_list = <<>>
    THEN [m |-> m, result |-> "IndexError"]
    ELSE [m |-> m, result |-> "false"]

\* the undefined-transition branch guarded against an empty reject_states
ImplicitRejectSilent(m) ==
    IF reject_list = <<>>
    THEN [m |-> m, result |-> "false"]
    ELSE [m |-> [m EXCEPT !.current_state = reject_list[1]], result |-> "false"]

\* the undefined-transition branch recording a configuration
ImplicitRejectRecorded(m) ==
    IF reject_list = <<>>
    THEN [m |-> m, result |-> "IndexError"]
    ELSE [m |-> record_configuration([m EXCEPT !.current_state = reject_list[1]]),
          result |-> "false"]

\* step, when no transition is defined: list(self.reject_states)[0]
ImplicitReject(m) ==
    IF reject_list = <<>>
    THEN [m |-> m, result |-> "IndexError"]
    ELSE [m |-> [m EXCEPT !.current_state = reject_list[1]], result |-> "false"]

\* the transition branch without the increment of step_count
ExecuteTransitionUncounted(m, transition) ==
    LET written == write(m.tape, m.head_position, transition[2])
        moved   == move(m.head_position, transition[3])
    IN  [m |-> record_configuration(
                  [m EXCEPT !.tape = written, !.head_position = moved,
                            !.current_state = transition[1]]),
         result |-> "true"]

\* the transition branch recording the configuration before it changes it
ExecuteTransitionRecordedFirst(m, transition) ==
    LET recorded == record_configuration(m)
        written == write(m.tape, m.head_position, transition[2])
        moved   == move(m.head_position, transition[3])
    IN  [m |-> [recorded EXCEPT !.tape = written, !.head_position = moved,
                                !.current_state = transition[1],
                                !.step_count = @ + 1],
         result |-> "true"]

\* step, when a transition is defined: write, move, change state, count, record
ExecuteTransition(m, transition) ==
    LET next_state   == transition[1]
        write_symbol == transition[2]
        direction    == transition[3]
        written == write(m.tape, m.head_position, write_symbol)
        moved   == move(m.head_position, direction)
    IN  [m |-> record_configuration(
                  [m EXCEPT !.tape = written, !.head_position = moved,
                            !.current_state = next_state,
                            !.step_count = @ + 1]),
         result |-> "true"]

\* step without the test for a loaded tape
step_without_tape_check(m) ==
    IF IsHalting(m.current_state) THEN [m |-> m, result |-> "false"]
    ELSE LET current_symbol == read(m.tape, m.head_position)
             transition == get_transition(transitions, m.current_state,
                                         current_symbol)
         IN  IF transition = None THEN ImplicitReject(m)
             ELSE ExecuteTransition(m, transition)

\* TuringMachine.step: the new execution state and what the call returns
step(m) ==
    IF ~m.has_tape THEN [m |-> m, result |-> "ValueError"]
    ELSE IF IsHalting(m.current_state) THEN [m |-> m, result |-> "false"]
    ELSE LET current_symbol == read(m.tape, m.head_position)
             transition == get_transition(transitions, m.current_state,
                                         current_symbol)
         IN  IF transition = None THEN ImplicitReject(m)
             ELSE ExecuteTransition(m, transition)

\* the loop condition with <= for <
LoopConditionInclusive(count, budget) == count <= budget

\* the loop condition of run
LoopCondition(count, budget) == count < budget

\* the result with the reject test made before the accept test
OutcomeRejectFirst(q) ==
    IF q \in reject_states THEN Ret("run", "false", RECHAZADA)
    ELSE IF q \in accept_states THEN Ret("run", "true", ACEPTADA)
    ELSE Ret("run", "false", BUCLE)

\* the result run determines from the final state
Outcome(q) ==
    IF q \in accept_states THEN Ret("run", "true", ACEPTADA)
    ELSE IF q \in reject_states THEN Ret("run", "false", RECHAZADA)
    ELSE Ret("run", "false", BUCLE)

\* the exceptions step can raise
Errors == {"ValueError", "IndexError"}

\* run's while loop, from execution state m to the state it leaves
RECURSIVE RunLoopFrom(_, _)
RunLoopFrom(m, budget) ==
    IF LoopCondition(m.step_count, budget)
    THEN LET r == step(m)
         IN  IF r.result = "true" THEN RunLoopFrom(r.m, budget) ELSE r
    ELSE [m |-> m, result |-> "exit"]

\* TuringMachine.run as one call: the state it leaves and what it returns
run(m, w, budget) ==
    LET r == RunLoopFrom(load_input(m, w), budget)
    IN  [m |-> r.m,
         ret |-> IF r.result \in Errors THEN Ret("run", r.result, "none")
                 ELSE Outcome(r.m.current_state)]

\* the execution state TuringMachine.__init__ leaves
Constructed ==
    [current_state |-> initial_state, has_tape |-> FALSE, tape |-> EmptyDict,
     head_position |-> 0, step_count |-> 0, history |-> <<>>]

(***************************************************************************)
(* Actions: the calls the owner of the machine makes                       *)
(***************************************************************************)
SetMachine(m) ==
    /\ current_state' = m.current_state
    /\ has_tape' = m.has_tape
    /\ tape' = m.tape
    /\ head_position' = m.head_position
    /\ step_count' = m.step_count
    /\ history' = m.history

\* whether load_input is about to discard a tape that transitions ran on
Discards == has_tape /\ step_count > 0

\* tm.load_input(w)
LoadInputCall(w) ==
    /\ pc = "idle"
    /\ \E m \in {load_input(Machine, w)} : SetMachine(m)
    /\ input_string' = w
    /\ ret' = Ret("load_input", "none", "none")
    /\ calls' = 0
    /\ true_calls' = 0
    /\ reloaded' = Discards
    /\ UNCHANGED <<desc, log, pc, max_steps>>

\* tm.step()
StepCall ==
    /\ pc = "idle"
    /\ calls < MaxCalls
    /\ \E r \in {step(Machine)} :
           /\ SetMachine(r.m)
           /\ ret' = Ret("step", r.result, "none")
           /\ calls' = calls + 1
           /\ true_calls' = IF r.result = "true" THEN true_calls + 1
                            ELSE true_calls
    /\ UNCHANGED <<desc, log, pc, input_string, max_steps, reloaded>>

\* tm.run(w, budget): load_input, then on to the loop
RunBegin(w, budget) ==
    /\ pc = "idle"
    /\ \E m \in {load_input(Machine, w)} : SetMachine(m)
    /\ input_string' = w
    /\ max_steps' = budget
    /\ pc' = "loop"
    /\ ret' = Ret("run", "running", "none")
    /\ calls' = 0
    /\ true_calls' = 0
    /\ reloaded' = Discards
    /\ UNCHANGED <<desc, log>>

\* the default of run's max_steps parameter
DefaultMaxSteps == 1000

\* tm.run(w)
RunDefault(w) == RunBegin(w, DefaultMaxSteps)

\* run: one evaluation of the while condition and, if it holds, of the body;
\* followed for as long as step_count is within MaxBudget
RunLoop ==
    /\ pc = "loop"
    /\ step_count <= MaxBudget
    /\ IF LoopCondition(step_count, max_steps)
       THEN \E r \in {step(Machine)} :
                /\ SetMachine(r.m)
                /\ calls' = calls + 1
                /\ true_calls' = IF r.result = "true" THEN true_calls + 1
                                 ELSE true_calls
                /\ IF r.result \in Errors
                   THEN /\ pc' = "idle"
                        /\ ret' = Ret("run", r.result, "none")
                   ELSE /\ pc' = IF r.result = "true" THEN "loop" ELSE "result"
                        /\ UNCHANGED ret
       ELSE /\ pc' = "result"
            /\ UNCHANGED <<exec, ret, calls, true_calls>>
    /\ UNCHANGED <<desc, log, input_string, max_steps, reloaded>>

\* run: the result is determined and returned
RunResult ==
    /\ pc = "result"
    /\ pc' = "idle"
    /\ ret' = Outcome(current_state)
    /\ UNCHANGED <<desc, log, exec, input_string, max_steps, calls, true_calls,
                   reloaded>>

Next ==
    \/ \E w \in Inputs : LoadInputCall(w)
    \/ StepCall
    \/ \E w \in Inputs, budget \in Budgets : RunBegin(w, budget)
    \/ \E w \in Inputs : RunDefault(w)
    \/ RunLoop
    \/ RunResult

Spec == Init /\ [][Next]_vars

\* the steps run takes once begun
RunStep == RunLoop \/ RunResult

\* a caller that only calls run
RunNext ==
    \/ \E w \in Inputs, budget \in Budgets : RunBegin(w, budget)
    \/ RunLoop
    \/ RunResult

\* run after run; a run is synchronous: once begun, its steps do happen
FairSpec == Init /\ [][RunNext]_vars /\ WF_vars(RunStep)

\* the same calls on a machine whose description is malformed
MalformedSpec == MalformedInit /\ [][Next]_vars

\* the same calls, with a second machine of the same description beside
TwinSpec == TwinInit /\ [][Next]_vars

(***************************************************************************)
(* A Tape used on its own, as the unit tests use it                        *)
(***************************************************************************)
\* the symbols the owner of a Tape writes
WriteSymbols == {"X", "_"}

\* one call on the Tape: what was called, on which head and cells, and what
\* it returned
TapeCall(op, arg, result) ==
    [op |-> op, arg |-> arg, head |-> head_position, cells |-> tape,
     result |-> result]

\* the variables of the machine, of which there is none
NoMachine ==
    /\ states = {}
    /\ transitions = EmptyDict
    /\ initial_state = "q0"
    /\ accept_states = {}
    /\ reject_states = {}
    /\ reject_list = <<>>
    /\ twins = {}
    /\ current_state = "q0"
    /\ has_tape = FALSE
    /\ step_count = 0
    /\ history = <<>>
    /\ pc = "idle"
    /\ max_steps = 0
    /\ ret = Ret("init", "none", "none")
    /\ calls = 0
    /\ true_calls = 0
    /\ reloaded = FALSE

machine == <<desc, current_state, has_tape, step_count, history, pc,
             max_steps, ret, calls, true_calls, reloaded>>

\* Tape(w)
TapeInit ==
    /\ NoMachine
    /\ input_string \in Inputs
    /\ tape = Tape_init(input_string)
    /\ head_position = 0
    /\ log = <<>>

\* tape.write(symbol)
WriteCall(symbol) ==
    /\ Len(log) < MaxOps
    /\ tape' = write(tape, head_position, symbol)
    /\ log' = Append(log, TapeCall("write", symbol, "none"))
    /\ UNCHANGED <<machine, input_string, head_position>>

\* tape.move(direction)
MoveCall(direction) ==
    /\ Len(log) < MaxOps
    /\ head_position' = move(head_position, direction)
    /\ log' = Append(log, TapeCall("move", direction, "none"))
    /\ UNCHANGED <<machine, input_string, tape>>

\* tape.read()
ReadCall ==
    /\ Len(log) < MaxOps
    /\ log' = Append(log, TapeCall("read", "none", read(tape, head_position)))
    /\ UNCHANGED <<machine, input_string, tape, head_position>>

\* the windows get_content is called with
Windows == {0, 3, DefaultWindow}

\* tape.get_content(window)
ContentCall(window) ==
    /\ Len(log) < MaxOps
    /\ log' = Append(log, TapeCall("get_content", window,
                                   get_content(tape, head_position, window)))
    /\ UNCHANGED <<machine, input_string, tape, head_position>>

TapeNext ==
    \/ \E symbol \in WriteSymbols : WriteCall(symbol)
    \/ \E direction \in {LEFT, RIGHT} : MoveCall(direction)
    \/ ReadCall
    \/ \E window \in Windows : ContentCall(window)

TapeSpec == TapeInit /\ [][TapeNext]_vars

(***************************************************************************)
(* A TransitionFunction used on its own, as the unit tests use it          *)
(***************************************************************************)
\* one call on the TransitionFunction: the records it added, the key it
\* looked up, and what it returned
TFCall(op, recs, key, result) ==
    [op |-> op, recs |-> recs, key |-> key, result |-> result]

\* TransitionFunction()
TFInit ==
    /\ NoMachine
    /\ input_string = <<>>
    /\ tape = EmptyDict
    /\ head_position = 0
    /\ log = <<>>

\* tf.add_transition(current, read_symbol, next, write_symbol, direction)
AddCall(current, read_symbol, next, write_symbol, direction) ==
    /\ Len(log) < MaxAdds
    /\ transitions' = add_transition(transitions, current, read_symbol, next,
                                     write_symbol, direction)
    /\ log' = Append(log, TFCall("add",
                  <<Rec(current, read_symbol, next, write_symbol, direction)>>,
                  <<>>, "none"))
    /\ UNCHANGED <<states, initial_state, accept_states, reject_states,
                   reject_list, twins, exec, pc, input_string, max_steps, ret,
                   calls, true_calls, reloaded>>

\* tf.load_from_dict(records)
LoadCall(records) ==
    /\ Len(log) < MaxAdds
    /\ transitions' = load_from_dict(transitions, records)
    /\ log' = Append(log, TFCall("load", records, <<>>, "none"))
    /\ UNCHANGED <<states, initial_state, accept_states, reject_states,
                   reject_list, twins, exec, pc, input_string, max_steps, ret,
                   calls, true_calls, reloaded>>

\* tf.get_transition(current, read_symbol)
GetCall(current, read_symbol) ==
    /\ Len(log) < MaxAdds
    /\ log' = Append(log, TFCall("get", <<>>, <<current, read_symbol>>,
                  get_transition(transitions, current, read_symbol)))
    /\ UNCHANGED <<machine, exec, input_string>>

TFNext ==
    \/ \E current \in {"q0", "q1"}, next \in {"q1", "q_accept"},
          write_symbol \in InputSymbols, direction \in {"L", "R"} :
           AddCall(current, "0", next, write_symbol, direction)
    \/ \E records \in {TableDup, TableLeft} : LoadCall(records)
    \/ \E current \in {"q0", "q1"}, read_symbol \in InputSymbols :
           GetCall(current, read_symbol)

TFSpec == TFInit /\ [][TFNext]_vars

(***************************************************************************)
(* Properties                                                              *)
(***************************************************************************)
\* the symbol a reader finds at position p of the cells
CellAt(cells, p) == IF p \in DOMAIN cells THEN cells[p] ELSE "_"

\* this step of the behaviour is a call of step(), direct or from run's loop
StepCalled == calls' = calls + 1

\* this step of the behaviour is a call of load_input, direct or from run
LoadCalled == ret'.op = "load_input" \/ (pc = "idle" /\ pc' = "loop")

\* the call of step() in this step of the behaviour returned True / False
ReturnedTrue ==
    /\ true_calls' = true_calls + 1
    /\ pc = "idle" => ret' = Ret("step", "true", "none")
    /\ pc = "loop" => pc' = "loop"
ReturnedFalse ==
    /\ true_calls' = true_calls
    /\ pc = "idle" => ret' = Ret("step", "false", "none")
    /\ pc = "loop" => pc' = "result"

Halted == current_state \in accept_states \/ current_state \in reject_states

\* a transition is defined for the current state and the symbol under the head
Defined == <<current_state, CellAt(tape, head_position)>> \in DOMAIN transitions

\* C1: a step() of a loaded machine in a non-halting state with a defined
\* transition writes write_symbol at the old head position and changes no
\* other cell, moves the head by -1 (LEFT) or +1 (RIGHT), sets current_state
\* to next_state, adds 1 to step_count, appends one snapshot, returns True.
C1_StepExecutesTransition ==
    [][(StepCalled /\ has_tape /\ ~Halted /\ Defined) =>
        LET t == transitions[<<current_state, CellAt(tape, head_position)>>]
        IN  /\ head_position \in DOMAIN tape'
            /\ tape'[head_position] = t[2]
            /\ DOMAIN tape' = DOMAIN tape \cup {head_position}
            /\ \A p \in DOMAIN tape \ {head_position} : tape'[p] = tape[p]
            /\ t[3] \in {LEFT, RIGHT}
            /\ head_position' =
                   head_position + (IF t[3] = LEFT THEN -1 ELSE 1)
            /\ current_state' = t[1]
            /\ step_count' = step_count + 1
            /\ Len(history') = Len(history) + 1
            /\ SubSeq(history', 1, Len(history)) = history
            /\ ReturnedTrue]_vars

\* a direct step() has executed a LEFT transition from position 0
C1_Witness ==
    /\ ret = Ret("step", "true", "none")
    /\ step_count = 1
    /\ head_position = -1
    /\ Len(history) = 2

\* C2: in a halting state of a loaded machine step() returns False and every
\* call other than load_input leaves current_state, the cells, the head,
\* step_count and history as they are, also when a transition is defined.
C2_HaltingAbsorbing ==
    [][(has_tape /\ Halted /\ ~LoadCalled) =>
        /\ UNCHANGED <<current_state, tape, head_position, step_count,
                       history>>
        /\ StepCalled => ReturnedFalse]_vars

\* step() was called twice in a halting state reached by transitions, with a
\* transition defined for that state and the symbol under the head
C2_Witness ==
    /\ ret = Ret("step", "false", "none")
    /\ Halted
    /\ Defined
    /\ step_count >= 1
    /\ calls >= step_count + 2

\* C3: a step() in a non-halting state with no transition defined and a
\* non-empty reject_states raises nothing, puts current_state in
\* reject_states and returns False.
C3_ImplicitReject ==
    [][(StepCalled /\ has_tape /\ ~Halted /\ ~Defined /\ reject_states # {}) =>
        /\ current_state' \in reject_states
        /\ ReturnedFalse]_vars

\* the first step() after load_input rejected from a non-halting initial state
C3_Witness ==
    /\ ret = Ret("step", "false", "none")
    /\ calls = 1
    /\ step_count = 0
    /\ initial_state \notin accept_states \cup reject_states
    /\ current_state \in reject_states

\* run(...) has returned a result (it did not raise)
RunReturned == pc = "idle" /\ ret.op = "run" /\ ret.value \notin Errors

\* C4: run returns (True, accepted) iff the final state is in accept_states,
\* else (False, rejected) if it is in reject_states, else (False, step limit);
\* one of the three labels, and True only with the accepted label.
C4_OutcomeOrder ==
    RunReturned =>
        /\ (ret.value = "true" /\ ret.label = ACEPTADA)
               <=> current_state \in accept_states
        /\ (current_state \notin accept_states /\ current_state \in reject_states)
               => (ret.value = "false" /\ ret.label = RECHAZADA)
        /\ (current_state \notin accept_states /\ current_state \notin reject_states)
               => (ret.value = "false" /\ ret.label = BUCLE)
        /\ ret.label \in {ACEPTADA, RECHAZADA, BUCLE}
        /\ ret.value \in {"true", "false"}
        /\ ret.value = "true" => ret.label = ACEPTADA

\* run returned accepted with the final state in both sets
C4_Witness ==
    /\ RunReturned
    /\ ret.label = ACEPTADA
    /\ current_state \in accept_states \cap reject_states

\* C5: run makes at most max_steps calls of step() (none when max_steps <= 0)
\* and it terminates.
C5_RunTerminates ==
    /\ [](ret.op = "run" => calls <= Max2(max_steps, 0))
    /\ (pc # "idle") ~> (pc = "idle")

\* run used its whole budget on a machine that never halts
C5_Witness ==
    /\ RunReturned
    /\ ret.label = BUCLE
    /\ max_steps >= 2
    /\ calls = max_steps

\* C6: when run returns the step-limit label with max_steps >= 0, step_count
\* equals max_steps and the final state is in neither halting set.
C6_StepLimit ==
    (RunReturned /\ ret.label = BUCLE /\ max_steps >= 0) =>
        /\ step_count = max_steps
        /\ current_state \notin accept_states
        /\ current_state \notin reject_states

\* run returned the step-limit label after two executed transitions
C6_Witness ==
    /\ RunReturned
    /\ ret.label = BUCLE
    /\ max_steps = 2
    /\ step_count = 2

\* C7: whatever calls came before, run(input, max_steps) returns what it
\* returns on the machine as constructed, with the same step_count and the
\* same history length; so two such runs on one machine agree.
C7_RunIndependent ==
    (pc = "idle" /\ ret.op = "run") =>
        LET fresh == run(Constructed, input_string, max_steps)
        IN  /\ ret = fresh.ret
            /\ step_count = fresh.m.step_count
            /\ Len(history) = Len(fresh.m.history)

\* a run that began on a machine earlier calls had stepped has returned,
\* having executed transitions itself
C7_Witness ==
    /\ RunReturned
    /\ reloaded
    /\ step_count >= 1

\* this state is the one load_input leaves
Loaded == ret.op = "load_input" \/ (pc = "loop" /\ calls = 0)

\* C8: after load_input(w) current_state = initial_state, step_count = 0, the
\* head is at 0, position i holds w[i] for 0 <= i < len(w) and every other
\* position reads blank.
C8_LoadInput ==
    Loaded =>
        /\ has_tape
        /\ current_state = initial_state
        /\ step_count = 0
        /\ head_position = 0
        /\ \A p \in DOMAIN tape \cup (-(MaxLen + MaxCalls)..(MaxLen + MaxCalls)) :
               CellAt(tape, p) =
                   IF 0 <= p /\ p < Len(input_string)
                   THEN input_string[p + 1] ELSE "_"

\* load_input of a non-empty string replaced a tape that had been stepped on
C8_Witness ==
    /\ ret.op = "load_input"
    /\ reloaded
    /\ Len(input_string) >= 1

\* C9: step_count is the number of step() calls since load_input that returned
\* True: a call returning True adds one, any other call leaves it.
C9_StepCount == step_count = true_calls

\* after load_input, calls that returned True and calls that returned False
C9_Witness ==
    /\ ret.op = "step"
    /\ true_calls >= 2
    /\ calls > true_calls

\* C10: step() on a machine never loaded raises the invalid-state error and
\* leaves current_state, step_count and history as constructed.
C10_StepBeforeLoad ==
    (~has_tape /\ calls > 0) =>
        /\ ret = Ret("step", "ValueError", "none")
        /\ current_state = initial_state
        /\ step_count = 0
        /\ history = <<>>

\* step() was called on a machine never loaded
C10_Witness ==
    /\ ~has_tape
    /\ calls >= 1
    /\ ret.value = "ValueError"

\* the call of step() in this step of the behaviour raised an error, which a
\* run in progress passes on to its caller
Raised ==
    /\ true_calls' = true_calls
    /\ pc' = "idle"
    /\ ret'.value \in Errors
    /\ ret'.label = "none"
    /\ ret'.op = IF pc = "idle" THEN "step" ELSE "run"

\* C11: with reject_states empty, a step() that meets an undefined transition
\* in a non-halting state raises an error, which also ends a run in progress
\* without an outcome; current_state is not changed.
C11_EmptyRejectFails ==
    [][(StepCalled /\ has_tape /\ ~Halted /\ ~Defined /\ reject_states = {}) =>
        /\ Raised
        /\ UNCHANGED <<current_state, tape, head_position, step_count,
                       history>>]_vars

\* a run ended by the error of an implicit reject with no reject state
C11_Witness ==
    /\ pc = "idle"
    /\ ret = Ret("run", "IndexError", "none")
    /\ reject_states = {}
    /\ ~Halted
    /\ ~Defined

\* C12: a description whose initial_state, or a member of accept_states or
\* reject_states, is not in states yields no normal result: no load_input or
\* step returns and no run returns an accepted / rejected / step-limit outcome.
C12_MalformedSurfaced ==
    Malformed =>
        /\ ret.op # "load_input"
        /\ ~(ret.op = "step" /\ ret.value \in {"true", "false"})
        /\ ~(ret.op = "run" /\ ret.label \in {ACEPTADA, RECHAZADA, BUCLE})

\* the first step() after load_input was an implicit reject
RejectedAtOnce ==
    /\ ret = Ret("step", "false", "none")
    /\ calls = 1
    /\ initial_state \notin accept_states \cup reject_states
    /\ reject_states # {}

\* C13: the reject state an implicit reject chooses is fixed by the
\* description: this machine's implicit reject ends in the state in which the
\* implicit reject of any other machine of the same description ends.
C13_RejectChoiceFixed ==
    RejectedAtOnce => \A o \in twins : current_state = o[1]

\* the head and the cells that the i-th call on the Tape left
HeadAfter(i) == IF i = Len(log) THEN head_position ELSE log[i + 1].head
CellsAfter(i) == IF i = Len(log) THEN tape ELSE log[i + 1].cells

\* the writes before the i-th call that were made at position p
WritesAt(p, i) == {j \in 1..(i - 1) : log[j].op = "write" /\ log[j].head = p}

\* C14: a read returns the symbol of the last write at the head's position,
\* whatever moves and writes elsewhere came in between, and a write changes
\* the symbol at no other position.
C14_ReadAfterWrite ==
    \A i \in DOMAIN log :
        /\ (log[i].op = "read" /\ WritesAt(log[i].head, i) # {}) =>
               log[i].result = log[MaxOf(WritesAt(log[i].head, i))].arg
        /\ log[i].op = "write" =>
               /\ CellAt(CellsAfter(i), log[i].head) = log[i].arg
               /\ \A q \in (DOMAIN log[i].cells \cup DOMAIN CellsAfter(i)
                            \cup (-MaxOps..(MaxLen + MaxOps))) \ {log[i].head} :
                      /\ q \in DOMAIN CellsAfter(i) <=> q \in DOMAIN log[i].cells
                      /\ CellAt(CellsAfter(i), q) = CellAt(log[i].cells, q)

\* a write of X, a move away and back, and a read that returns X
C14_Witness ==
    /\ Len(log) = 4
    /\ log[1].op = "write" /\ log[1].arg = "X"
    /\ log[2].op = "move"
    /\ log[3].op = "move"
    /\ log[4].op = "read" /\ log[4].head = log[1].head /\ log[4].result = "X"
    /\ Len(input_string) = 2

\* C15: a read never fails, and at a position that was never written and
\* lies outside 0..len(w)-1 it returns the blank symbol.
C15_UnwrittenReadsBlank ==
    \A i \in DOMAIN log :
        log[i].op = "read" =>
            /\ log[i].result \in InputSymbols \cup WriteSymbols \cup {"_"}
            /\ (/\ WritesAt(log[i].head, i) = {}
                /\ ~(0 <= log[i].head /\ log[i].head < Len(input_string)))
                   => log[i].result = "_"

\* a read at a negative position, after a write at another position
C15_Witness ==
    \E i \in DOMAIN log :
        /\ log[i].op = "read"
        /\ log[i].head < 0
        /\ log[i].result = "_"
        /\ \E j \in 1..(i - 1) : log[j].op = "write" /\ log[j].arg = "X"

\* C16: move(LEFT) changes the head by -1 and move(RIGHT) by +1, from any
\* position and without changing a cell; RIGHT then LEFT, and LEFT then
\* RIGHT, restore the head.
C16_MoveByOne ==
    \A i \in DOMAIN log :
        log[i].op = "move" =>
            /\ log[i].arg = LEFT => HeadAfter(i) = log[i].head - 1
            /\ log[i].arg = RIGHT => HeadAfter(i) = log[i].head + 1
            /\ CellsAfter(i) = log[i].cells
            /\ (/\ i < Len(log)
                /\ log[i + 1].op = "move"
                /\ log[i + 1].arg # log[i].arg)
                   => HeadAfter(i + 1) = log[i].head

\* LEFT then RIGHT from a negative position, after a write
C16_Witness ==
    \E i \in DOMAIN log :
        /\ i < Len(log)
        /\ log[i].op = "move" /\ log[i].arg = LEFT /\ log[i].head < 0
        /\ log[i + 1].op = "move" /\ log[i + 1].arg = RIGHT
        /\ DOMAIN log[i].cells # DOMAIN Tape_init(input_string)

\* the records that the first n calls on the TransitionFunction added, in
\* the order of the calls and, within a load_from_dict, of the list
RECURSIVE Added(_)
Added(n) == IF n = 0 THEN <<>> ELSE Added(n - 1) \o log[n].recs

\* where the records a have the key
AddsFor(a, key) ==
    {j \in DOMAIN a : <<a[j].current_state, a[j].read_symbol>> = key}

\* C17: get_transition returns the triple of the most recent record added
\* for the key, by add_transition or within a load_from_dict, with "L" as
\* LEFT and "R" as RIGHT, and None when no record was added for the key.
C17_LastWriteWins ==
    \A i \in DOMAIN log :
        log[i].op = "get" =>
            LET a == Added(i - 1)
                K == AddsFor(a, log[i].key)
            IN  IF K = {} THEN log[i].result = None
                ELSE LET r == a[MaxOf(K)]
                     IN  /\ log[i].result # None
                         /\ log[i].result[1] = r.next_state
                         /\ log[i].result[2] = r.write_symbol
                         /\ r.direction = "L" => log[i].result[3] = LEFT
                         /\ r.direction = "R" => log[i].result[3] = RIGHT

\* a list that gives (q0, "0") twice is loaded, the key is added once more,
\* and the lookup returns the triple of that last add
C17_Witness ==
    /\ Len(log) = 3
    /\ log[1].op = "load" /\ log[1].recs = TableDup
    /\ log[2].op = "add" /\ log[2].recs = <<Rec("q0", "0", "q_accept", "1", "L")>>
    /\ log[3].op = "get" /\ log[3].key = <<"q0", "0">>
    /\ log[3].result = <<"q_accept", "1", LEFT>>

\* the single-symbol acceptor of the unit tests
SingleAcceptor ==
    /\ transitions = load_from_dict(EmptyDict, TableSingle)
    /\ initial_state = "q0"
    /\ accept_states = {"q_accept"}
    /\ reject_states = {"q_reject"}

\* C18: on the single-symbol acceptor run("0") with the default max_steps
\* returns (True, accepted) with step_count = 1 and a non-empty history, and
\* run("1") returns (False, rejected) with step_count = 0.
C18_SingleAcceptor ==
    (SingleAcceptor /\ RunReturned /\ max_steps = DefaultMaxSteps) =>
        /\ input_string = <<"0">> =>
               /\ ret.value = "true"
               /\ ret.label = ACEPTADA
               /\ step_count = 1
               /\ history # <<>>
        /\ input_string = <<"1">> =>
               /\ ret.value = "false"
               /\ ret.label = RECHAZADA
               /\ step_count = 0

\* run("0") with the default max_steps has returned on the acceptor
C18_Witness ==
    /\ SingleAcceptor
    /\ RunReturned
    /\ max_steps = DefaultMaxSteps
    /\ input_string = <<"0">>
    /\ ret.label = ACEPTADA

\* C19: a call of load_input leaves a history of the one snapshot it records
\* itself; any other call keeps every snapshot in place, and a step() appends
\* one snapshot exactly when it executes a transition.
C19_HistoryAppendOnly ==
    [][IF LoadCalled
       THEN /\ Len(history') = 1
            /\ history'[1].paso = 0
            /\ history'[1].estado = initial_state
            /\ history'[1].posicion = 0
       ELSE /\ Len(history') >= Len(history)
            /\ SubSeq(history', 1, Len(history)) = history
            /\ Len(history') = Len(history) +
                   (IF StepCalled /\ true_calls' = true_calls + 1 THEN 1 ELSE 0)]_vars

\* a history that transitions had extended was replaced by load_input, and
\* two transitions have extended the new one
C19_Witness ==
    /\ reloaded
    /\ ret.op = "step"
    /\ Len(history) = 3
    /\ calls > true_calls

\* C20: a step() that finds no transition in a non-halting state leaves the
\* cells, the head, step_count and history as they are and, the machine
\* having a reject state, returns False; as the first step() after
\* load_input(w) it so leaves step_count 0, the head at 0, the cells of w and
\* the one snapshot of load_input.
C20_ImplicitRejectFrame ==
    [][(StepCalled /\ has_tape /\ ~Halted /\ ~Defined) =>
        /\ UNCHANGED <<tape, head_position, step_count, history>>
        /\ reject_states # {} => ReturnedFalse
        /\ Loaded =>
               /\ step_count' = 0
               /\ head_position' = 0
               /\ tape' = Tape_init(input_string)
               /\ Len(history') = 1]_vars

\* run(w) of a non-empty w rejected at its first step()
C20_Witness ==
    /\ pc = "idle"
    /\ ret.op = "run" /\ ret.label = RECHAZADA
    /\ calls = 1
    /\ step_count = 0
    /\ Len(input_string) >= 1
    /\ initial_state \notin accept_states \cup reject_states
    /\ tape = Tape_init(input_string)
    /\ Len(history) = 1

\* the execution of the machine by its table alone, with no step() and no
\* budget, followed for n transitions at most: whether it entered an accept
\* state, entered a reject state, or came to a non-halting state with no
\* transition for the symbol under the head, and after how many transitions
RECURSIVE Reference(_, _, _, _, _)
Reference(q, cells, head, k, n) ==
    IF q \in accept_states THEN [verdict |-> "accepted", k |-> k]
    ELSE IF q \in reject_states THEN [verdict |-> "rejected", k |-> k]
    ELSE IF <<q, CellAt(cells, head)>> \notin DOMAIN transitions
         THEN [verdict |-> "undefined", k |-> k]
    ELSE IF k = n THEN [verdict |-> "running", k |-> k]
    ELSE LET t == transitions[<<q, CellAt(cells, head)>>]
         IN  Reference(t[1],
                       [p \in DOMAIN cells \cup {head} |->
                           IF p = head THEN t[2] ELSE cells[p]],
                       IF t[3] = LEFT THEN head - 1 ELSE head + 1,
                       k + 1, n)

\* the reference execution of the input of the last run, within its max_steps
ReferenceOfRun ==
    Reference(initial_state, [i \in 0..(Len(input_string) - 1) |-> input_string[i + 1]],
              0, 0, max_steps)

\* the label run owes to a reference execution that halted
LabelOf(verdict) == IF verdict = "accepted" THEN ACEPTADA ELSE RECHAZADA

\* a description with a reject state and no state both accepting and rejecting
Decisive == reject_states # {} /\ accept_states \cap reject_states = {}

\* C21 as claimed: when the reference execution of a machine with a reject
\* state halts (accept state, reject state or undefined transition) after
\* k <= max_steps transitions, run returns accepted / rejected accordingly and
\* not the step-limit label.
C21_RunAgreesWithReference ==
    (RunReturned /\ max_steps >= 0 /\ Decisive) =>
        LET ref == ReferenceOfRun
        IN  ref.verdict # "running" => ret.label = LabelOf(ref.verdict)

\* C21 as amended: the same, with the undefined transition reached after
\* k < max_steps transitions.
C21_RunAgreesBelowBudget ==
    (RunReturned /\ max_steps >= 0 /\ Decisive) =>
        LET ref == ReferenceOfRun
        IN  /\ ref.verdict \in {"accepted", "rejected"} =>
                   ret.label = LabelOf(ref.verdict)
            /\ (ref.verdict = "undefined" /\ ref.k < max_steps) =>
                   ret.label = RECHAZADA

\* run rejected on an undefined transition met after one transition, and
\* run accepted on the last transition its budget allowed
C21_Witness ==
    /\ RunReturned
    /\ Decisive
    /\ max_steps = 2
    /\ ReferenceOfRun = [verdict |-> "undefined", k |-> 1]
    /\ ret.label = RECHAZADA

\* C22: but for load_input, no call removes an occupied position and a call
\* adds at most the position the head was at; so the occupied positions
\* number at most len(input) + step_count.
C22_OccupiedCells ==
    /\ [](Cardinality(DOMAIN tape) <= Len(input_string) + step_count)
    /\ [][~LoadCalled =>
            /\ DOMAIN tape \subseteq DOMAIN tape'
            /\ DOMAIN tape' \subseteq DOMAIN tape \cup {head_position}
            /\ ~StepCalled => tape' = tape]_vars

\* two transitions have each occupied a position outside the input, one of
\* them left of position 0
C22_Witness ==
    /\ has_tape
    /\ step_count = 2
    /\ -1 \in DOMAIN tape
    /\ Cardinality(DOMAIN tape) = Len(input_string) + 1
    /\ Len(input_string) >= 1

\* the last snapshot of a history
LastOf(h) == h[Len(h)]

\* C23: on a loaded machine len(history) = step_count + 1; the i-th snapshot
\* (from 0) carries step number i, the first one the initial state and
\* position 0, the one a transition appends the state and the head it
\* reached; the last snapshot has the current head position and tape; a
\* step() that executes no transition adds no snapshot.
C23_HistoryLength ==
    /\ [](has_tape =>
            /\ Len(history) = step_count + 1
            /\ \A i \in DOMAIN history : history[i].paso = i - 1
            /\ history[1].estado = initial_state
            /\ history[1].posicion = 0
            /\ LastOf(history).posicion = head_position
            /\ LastOf(history).cinta =
                   get_content(tape, head_position, DefaultWindow))
    /\ [][(StepCalled /\ has_tape) =>
            IF true_calls' = true_calls + 1
            THEN /\ LastOf(history').paso = step_count'
                 /\ LastOf(history').estado = current_state'
                 /\ LastOf(history').posicion = head_position'
            ELSE history' = history]_vars

\* a transition to the left was recorded, then an implicit reject changed the
\* state and left the history alone
C23_Witness ==
    /\ ret = Ret("step", "false", "none")
    /\ Len(history) = 2
    /\ step_count = 1
    /\ head_position = -1
    /\ current_state \in reject_states
    /\ LastOf(history).estado # current_state
    /\ LastOf(history).estado \notin accept_states \cup reject_states

\* the symbols at the consecutive positions from min(lowest occupied position,
\* head - floor(window/2)) to max(highest occupied position,
\* head + floor(window/2)), blank where no cell is occupied
Spanned(cells, head, window) ==
    LET half == window \div 2
        lo == IF DOMAIN cells = {} THEN head - half
              ELSE Min2(MinOf(DOMAIN cells), head - half)
        hi == IF DOMAIN cells = {} THEN head + half
              ELSE Max2(MaxOf(DOMAIN cells), head + half)
    IN  [i \in 1..(hi - lo + 1) |-> CellAt(cells, lo + i - 1)]

\* C24 as claimed: on every tape, one with no occupied cell included,
\* get_content(window) returns the symbols of the spanned positions and changes
\* neither the cells nor the head.
C24_ContentSpansAll ==
    \A i \in DOMAIN log :
        log[i].op = "get_content" =>
            /\ log[i].result = Spanned(log[i].cells, log[i].head, log[i].arg)
            /\ CellsAfter(i) = log[i].cells
            /\ HeadAfter(i) = log[i].head

\* C24 as amended: the same on a tape with an occupied cell; on a tape with
\* none get_content(window) returns the blank symbol once.
C24_ContentSpansOccupied ==
    \A i \in DOMAIN log :
        log[i].op = "get_content" =>
            /\ log[i].result =
                   IF DOMAIN log[i].cells = {} THEN <<"_">>
                   ELSE Spanned(log[i].cells, log[i].head, log[i].arg)
            /\ CellsAfter(i) = log[i].cells
            /\ HeadAfter(i) = log[i].head

\* get_content(3) with the head left of the input: the window reaches further
\* left than the cells, the cells further right than the window
C24_Witness ==
    \E i \in DOMAIN log :
        /\ log[i].op = "get_content"
        /\ log[i].arg = 3
        /\ log[i].head = -1
        /\ Len(input_string) = 2
        /\ Len(log[i].result) = 4
        /\ log[i].result[1] = "_"

====
